---- MODULE Spec2Model ----
(***************************************************************************)
(* Pizza Restaurant API: the Pizza entity's rating / special-offer rules   *)
(* (server/models/pizza.py), the Restaurant cascade                        *)
(* (server/models/restaurant.py), the POST /restaurant_pizzas handler      *)
(* (server/controllers/restaurant_pizza_controller.py) and the seed        *)
(* routine (server/seed.py).                                               *)
(*                                                                         *)
(* Floats are modelled as exact rationals <<numerator, denominator>> in    *)
(* lowest terms (finite values only: no rounding, no NaN).  Prices and     *)
(* timestamps are integers.  A nullable column is None (the empty tuple)   *)
(* or Some(v) (the one-element tuple).                                     *)
(***************************************************************************)
EXTENDS Integers, Sequences, FiniteSets

VARIABLES
    pizza,      \* the Pizza row under test
    now,        \* datetime.utcnow()
    raised,     \* the exception message of the last Pizza call, or NoError
    submitted,  \* history: sum and number of the ratings accepted so far
    returned,   \* the value returned by the last get_current_price call
    db,         \* the committed rows of the three tables
    env,        \* which constraints the storage backend enforces
    last,       \* the last request served (or seed run) and its response
    sess        \* per request session: position, loaded Pizza, argument

vars == <<pizza, now, raised, submitted, returned, db, env, last, sess>>
pizzaVars == <<pizza, now, raised, submitted, returned>>
storeVars == <<db, env, last>>

----------------------------------------------------------------------------
(* Bounds of the model *)

\* number of ratings a pizza accepts in the model
MaxRatings == 3
\* last value of the UTC clock
MaxTime == 2
\* number of orders a pizza counts in the model
MaxOrders == 1
\* number of rows committed through POST /restaurant_pizzas in the model
MaxPosts == 2

----------------------------------------------------------------------------
(* Nullable values *)

None == <<>>
Some(v) == <<v>>
Val(o) == o[1]

(* Exact rationals standing for Python floats *)

Abs(n) == IF n < 0 THEN 0 - n ELSE n

RECURSIVE GCD(_, _)
GCD(a, b) == IF b = 0 THEN a ELSE GCD(b, a % b)

Rat(n, d) ==
    LET g == GCD(Abs(n), d)
    IN  IF n = 0 THEN <<0, 1>> ELSE <<n \div g, d \div g>>

RatAdd(a, b) == Rat(a[1] * b[2] + b[1] * a[2], a[2] * b[2])
RatMulInt(a, k) == Rat(a[1] * k, a[2])
RatDivInt(a, k) == Rat(a[1], a[2] * k)
RatLess(a, b) == a[1] * b[2] < b[1] * a[2]
RatOfInt(k) == <<k, 1>>

----------------------------------------------------------------------------
(* Exceptions *)

NoError == "none"
RatingError == "Rating must be between 0 and 5"
SpecialPriceError == "Special price must be less than regular price"

----------------------------------------------------------------------------
(* Pizza: the columns the operations below read or write *)

\* column defaults of a freshly constructed Pizza with base price p
NewPizza(p) ==
    [ price              |-> p,
      is_available       |-> TRUE,
      rating             |-> RatOfInt(0),
      rating_count       |-> 0,
      order_count        |-> 0,
      last_ordered_at    |-> None,
      is_special         |-> FALSE,
      special_price      |-> None,
      special_start_date |-> None,
      special_end_date   |-> None ]

toggle_availability(p) == [p EXCEPT !.is_available = ~p.is_available]

\* a plausible slip: the counters are written before the range is checked
update_rating_unchecked(p, new_rating) ==
    LET total_rating == RatAdd(RatMulInt(p.rating, p.rating_count), new_rating)
        count == p.rating_count + 1
    IN  [ pizza  |-> [p EXCEPT !.rating_count = count,
                               !.rating = RatDivInt(total_rating, count)],
          raised |-> IF RatLess(new_rating, RatOfInt(0)) \/ RatLess(RatOfInt(5), new_rating)
                     THEN RatingError ELSE NoError ]

\* a plausible slip: the count is not incremented before the division
update_rating_stale_count(p, new_rating) ==
    IF RatLess(new_rating, RatOfInt(0)) \/ RatLess(RatOfInt(5), new_rating)
    THEN [pizza |-> p, raised |-> RatingError]
    ELSE LET total_rating == RatAdd(RatMulInt(p.rating, p.rating_count), new_rating)
         IN  [ pizza  |-> [p EXCEPT !.rating_count = p.rating_count + 1,
                                    !.rating = IF p.rating_count = 0
                                               THEN total_rating
                                               ELSE RatDivInt(total_rating, p.rating_count)],
               raised |-> NoError ]

update_rating(p, new_rating) ==
    IF RatLess(new_rating, RatOfInt(0)) \/ RatLess(RatOfInt(5), new_rating)
    THEN [pizza |-> p, raised |-> RatingError]
    ELSE LET total_rating == RatAdd(RatMulInt(p.rating, p.rating_count), new_rating)
             count == p.rating_count + 1
         IN  [ pizza  |-> [p EXCEPT !.rating_count = count,
                                    !.rating = RatDivInt(total_rating, count)],
               raised |-> NoError ]

increment_order_count(p, utcnow) ==
    [p EXCEPT !.order_count = p.order_count + 1,
              !.last_ordered_at = Some(utcnow)]

\* a plausible slip: the end of the window is exclusive
get_current_price_exclusive_end(p, utcnow) ==
    IF p.is_special /\ p.special_price # None
    THEN IF /\ (p.special_start_date = None \/ utcnow >= Val(p.special_start_date))
            /\ (p.special_end_date = None \/ utcnow < Val(p.special_end_date))
         THEN Val(p.special_price)
         ELSE p.price
    ELSE p.price

get_current_price(p, utcnow) ==
    IF p.is_special /\ p.special_price # None
    THEN IF /\ (p.special_start_date = None \/ utcnow >= Val(p.special_start_date))
            /\ (p.special_end_date = None \/ utcnow <= Val(p.special_end_date))
         THEN Val(p.special_price)
         ELSE p.price
    ELSE p.price

\* a plausible slip: the fields are assigned before the price is checked
set_special_offer_unchecked(p, special_price, start_date, end_date) ==
    [ pizza  |-> [p EXCEPT !.is_special = TRUE,
                           !.special_price = Some(special_price),
                           !.special_start_date = start_date,
                           !.special_end_date = end_date],
      raised |-> IF special_price >= p.price THEN SpecialPriceError ELSE NoError ]

\* a plausible slip: > for >=, so an offer at the base price is accepted
set_special_offer_allows_equal(p, special_price, start_date, end_date) ==
    IF special_price > p.price
    THEN [pizza |-> p, raised |-> SpecialPriceError]
    ELSE [ pizza  |-> [p EXCEPT !.is_special = TRUE,
                                !.special_price = Some(special_price),
                                !.special_start_date = start_date,
                                !.special_end_date = end_date],
           raised |-> NoError ]

set_special_offer(p, special_price, start_date, end_date) ==
    IF special_price >= p.price
    THEN [pizza |-> p, raised |-> SpecialPriceError]
    ELSE [ pizza  |-> [p EXCEPT !.is_special = TRUE,
                                !.special_price = Some(special_price),
                                !.special_start_date = start_date,
                                !.special_end_date = end_date],
           raised |-> NoError ]

end_special_offer(p) ==
    [p EXCEPT !.is_special = FALSE,
              !.special_price = None,
              !.special_start_date = None,
              !.special_end_date = None]

----------------------------------------------------------------------------
(* The store: restaurants, pizzas and restaurant_pizzas tables.  A        *)
(* restaurant or pizza row is its id; a restaurant_pizzas row is a record. *)

PriceRangeError == "price must be between 1 and 30"
InvalidData == "Invalid data"

EmptyDb == [restaurants |-> {}, pizzas |-> {}, restaurant_pizzas |-> {}]

\* the integer primary key given to a new row of a table holding ids
NextId(ids) == IF ids = {} THEN 1 ELSE (CHOOSE m \in ids : \A k \in ids : k <= m) + 1

\* a plausible slip: an off-by-one lower bound
validate_price_from_zero(price) ==
    IF 0 <= price /\ price <= 30 THEN NoError ELSE PriceRangeError

\* RestaurantPizza's price validator
validate_price(price) ==
    IF 1 <= price /\ price <= 30 THEN NoError ELSE PriceRangeError

\* RestaurantPizza.to_dict serializes the row with its pizza and restaurant;
\* it raises when an association is absent (None has no to_dict)
restaurant_pizza_to_dict_raises(d, rp) ==
    \/ rp.pizza_id \notin d.pizzas
    \/ rp.restaurant_id \notin d.restaurants

\* the backend refuses the INSERT when it enforces foreign keys and a
\* referenced row is absent
commit_raises(d, e, rp) ==
    /\ e.foreign_keys
    /\ \/ rp.pizza_id \notin d.pizzas
       \/ rp.restaurant_id \notin d.restaurants

\* POST /restaurant_pizzas with the JSON body data (a missing key is None)
create_restaurant_pizza(d, e, data) ==
    IF data.price = None \/ data.pizza_id = None \/ data.restaurant_id = None
    THEN [db |-> d, status |-> 400, errors |-> <<InvalidData>>]
    ELSE IF validate_price(Val(data.price)) # NoError
    THEN [db |-> d, status |-> 400, errors |-> <<validate_price(Val(data.price))>>]
    ELSE LET restaurant_pizza ==
                 [ id            |-> NextId({rp.id : rp \in d.restaurant_pizzas}),
                   price         |-> Val(data.price),
                   pizza_id      |-> Val(data.pizza_id),
                   restaurant_id |-> Val(data.restaurant_id) ]
             committed ==
                 [d EXCEPT !.restaurant_pizzas = @ \cup {restaurant_pizza}]
         IN  IF commit_raises(d, e, restaurant_pizza)
             THEN [db |-> d, status |-> 400, errors |-> <<InvalidData>>]
             ELSE IF restaurant_pizza_to_dict_raises(committed, restaurant_pizza)
             THEN [db |-> committed, status |-> 400, errors |-> <<InvalidData>>]
             ELSE [db |-> committed, status |-> 201, errors |-> <<>>]

\* the six associations of the seed routine: <<price, restaurant_id, pizza_id>>
SeedRestaurantPizzas ==
    << <<10, 1, 1>>, <<12, 1, 2>>, <<11, 2, 1>>,
       <<13, 2, 3>>, <<12, 3, 2>>, <<14, 3, 3>> >>

SeedRows ==
    { [ id            |-> i,
        price         |-> SeedRestaurantPizzas[i][1],
        pizza_id      |-> SeedRestaurantPizzas[i][3],
        restaurant_id |-> SeedRestaurantPizzas[i][2] ] :
      i \in DOMAIN SeedRestaurantPizzas }

\* seed_database: clear the tables, then commit three restaurants, three
\* pizzas (constructed without a price) and six associations, in three
\* commits; an exception ends the run after the commits already made
seed_database(d, e) ==
    LET cleared == [EmptyDb EXCEPT !.restaurants = {1, 2, 3}]
        with_pizzas == [cleared EXCEPT !.pizzas = {1, 2, 3}]
        rows == SeedRows
    IN  IF e.price_not_null
        THEN [db |-> cleared, exit |-> 1]
        ELSE IF \E rp \in rows : validate_price(rp.price) # NoError
        THEN [db |-> with_pizzas, exit |-> 1]
        ELSE IF \E rp \in rows : commit_raises(with_pizzas, e, rp)
        THEN [db |-> with_pizzas, exit |-> 1]
        ELSE [db |-> [with_pizzas EXCEPT !.restaurant_pizzas = rows], exit |-> 0]

\* a plausible slip: the relationship declared without the delete cascade
delete_cascade_keeps_rows(d, rid) ==
    [d EXCEPT !.restaurants = @ \ {rid}]

\* session.delete(restaurant) under cascade='all, delete-orphan': the
\* restaurant goes with the associations of its collection; Pizza declares
\* no cascade, so no pizza row is touched
delete_cascade(d, rid) ==
    [d EXCEPT !.restaurants = @ \ {rid},
              !.restaurant_pizzas = {rp \in @ : rp.restaurant_id # rid}]

\* DELETE /restaurants/<rid>
delete_restaurant(d, rid) ==
    IF rid \notin d.restaurants
    THEN [db |-> d, status |-> 404]
    ELSE [db |-> delete_cascade(d, rid), status |-> 204]

NoRequest == [op |-> "none", price |-> None, status |-> 0, errors |-> <<>>]

----------------------------------------------------------------------------
(* Request sessions on one Pizza row *)

Sessions == {1, 2}
IdleSession == [pc |-> "idle", local |-> NewPizza(0), arg |-> RatOfInt(0)]

----------------------------------------------------------------------------
(* Inputs *)

\* the base price of the pizza under test
BasePrice == 20
\* ratings submitted: -1, 0, 2.5, 5 and 5.5
RatingInputs == {Rat(0 - 1, 1), Rat(0, 1), Rat(5, 2), Rat(5, 1), Rat(11, 2)}
\* special prices offered: below, at and above the base price
SpecialPriceInputs == {BasePrice - 10, BasePrice, BasePrice + 5}
Times == 0 .. MaxTime
DateInputs == {None} \cup {Some(t) : t \in Times}
\* request bodies: price missing, 0, 1, 30 or 31; pizza_id missing, that of
\* a seeded pizza or of none; restaurant_id that of a seeded restaurant
\* (absent before the seed run and after its deletion)
PriceInputs == {None, Some(0), Some(1), Some(30), Some(31)}
PizzaIdInputs == {None, Some(1), Some(4)}
RestaurantIdInputs == {Some(1)}
RestaurantIds == {1, 2, 3}

----------------------------------------------------------------------------
(* Specification Spec: one Pizza, constructed with the column defaults,    *)
(* under any sequence of its operations; the clock advances between calls. *)

Init ==
    /\ pizza = NewPizza(BasePrice)
    /\ now = 0
    /\ raised = NoError
    /\ submitted = [sum |-> RatOfInt(0), n |-> 0]
    /\ returned = None
    /\ db = EmptyDb
    /\ env = [foreign_keys |-> FALSE, price_not_null |-> TRUE]
    /\ last = NoRequest
    /\ sess = [i \in Sessions |-> IdleSession]

Tick ==
    /\ now < MaxTime
    /\ now' = now + 1
    /\ UNCHANGED <<pizza, raised, submitted, returned, db, env, last, sess>>

ToggleAvailability ==
    /\ pizza' = toggle_availability(pizza)
    /\ raised' = NoError
    /\ UNCHANGED <<now, submitted, returned, db, env, last, sess>>

UpdateRating(r) ==
    LET res == update_rating(pizza, r)
    IN  /\ pizza.rating_count < MaxRatings
        /\ pizza' = res.pizza
        /\ raised' = res.raised
        /\ submitted' = IF res.raised = NoError
                        THEN [sum |-> RatAdd(submitted.sum, r), n |-> submitted.n + 1]
                        ELSE submitted
        /\ UNCHANGED <<now, returned, db, env, last, sess>>

IncrementOrderCount ==
    /\ pizza.order_count < MaxOrders
    /\ pizza' = increment_order_count(pizza, now)
    /\ raised' = NoError
    /\ UNCHANGED <<now, submitted, returned, db, env, last, sess>>

SetSpecialOffer(sp, s, e) ==
    LET res == set_special_offer(pizza, sp, s, e)
    IN  /\ pizza' = res.pizza
        /\ raised' = res.raised
        /\ UNCHANGED <<now, submitted, returned, db, env, last, sess>>

EndSpecialOffer ==
    /\ pizza' = end_special_offer(pizza)
    /\ raised' = NoError
    /\ UNCHANGED <<now, submitted, returned, db, env, last, sess>>

Next ==
    \/ Tick
    \/ ToggleAvailability
    \/ \E r \in RatingInputs : UpdateRating(r)
    \/ IncrementOrderCount
    \/ \E sp \in SpecialPriceInputs, s \in DateInputs, e \in DateInputs :
          SetSpecialOffer(sp, s, e)
    \/ EndSpecialOffer

Spec == Init /\ [][Next]_vars

----------------------------------------------------------------------------
(* Specification SpecPrice: get_current_price applied, at every clock      *)
(* value, to a Pizza constructed with any combination of offer columns     *)
(* (the constructor takes every column as a keyword argument).             *)

OfferedPizzas ==
    { [NewPizza(BasePrice) EXCEPT !.is_special = sp,
                                  !.special_price = pr,
                                  !.special_start_date = s,
                                  !.special_end_date = e] :
        sp \in BOOLEAN, pr \in {None, Some(BasePrice - 10)},
        s \in DateInputs, e \in DateInputs }

InitPrice ==
    /\ pizza \in OfferedPizzas
    /\ now = 0
    /\ raised = NoError
    /\ submitted = [sum |-> RatOfInt(0), n |-> 0]
    /\ returned = None
    /\ db = EmptyDb
    /\ env = [foreign_keys |-> FALSE, price_not_null |-> TRUE]
    /\ last = NoRequest
    /\ sess = [i \in Sessions |-> IdleSession]

GetCurrentPrice ==
    /\ returned' = Some([at |-> now, price |-> get_current_price(pizza, now)])
    /\ raised' = NoError
    /\ UNCHANGED <<pizza, now, submitted, db, env, last, sess>>

NextPrice ==
    \/ Tick
    \/ GetCurrentPrice

SpecPrice == InitPrice /\ [][NextPrice]_vars

----------------------------------------------------------------------------
(* Specification SpecStore: the store under the seed routine, POST         *)
(* /restaurant_pizzas and DELETE /restaurants/<id>, one request at a time, *)
(* on a backend that may or may not enforce foreign keys and NOT NULL.     *)

InitStore ==
    /\ db = EmptyDb
    /\ env \in [foreign_keys : BOOLEAN, price_not_null : BOOLEAN]
    /\ last = NoRequest
    /\ pizza = NewPizza(BasePrice)
    /\ now = 0
    /\ raised = NoError
    /\ submitted = [sum |-> RatOfInt(0), n |-> 0]
    /\ returned = None
    /\ sess = [i \in Sessions |-> IdleSession]

\* the rows in the table that the seed routine did not write
PostsCommitted == Cardinality(db.restaurant_pizzas \ SeedRows)

Seed ==
    LET res == seed_database(db, env)
    IN  /\ db' = res.db
        /\ last' = [op |-> "seed", price |-> None, status |-> res.exit, errors |-> <<>>]
        /\ UNCHANGED <<env, pizzaVars, sess>>

PostRestaurantPizza(data) ==
    LET res == create_restaurant_pizza(db, env, data)
    IN  /\ PostsCommitted < MaxPosts \/ res.db = db
        /\ db' = res.db
        /\ last' = [op |-> "post", price |-> data.price,
                    status |-> res.status, errors |-> res.errors]
        /\ UNCHANGED <<env, pizzaVars, sess>>

DeleteRestaurant(rid) ==
    LET res == delete_restaurant(db, rid)
    IN  /\ db' = res.db
        /\ last' = [op |-> "delete", price |-> None, status |-> res.status, errors |-> <<>>]
        /\ UNCHANGED <<env, pizzaVars, sess>>

NextStore ==
    \/ Seed
    \/ \E pr \in PriceInputs, pid \in PizzaIdInputs, rid \in RestaurantIdInputs :
          PostRestaurantPizza([price |-> pr, pizza_id |-> pid, restaurant_id |-> rid])
    \/ \E rid \in RestaurantIds : DeleteRestaurant(rid)

SpecStore == InitStore /\ [][NextStore]_vars

----------------------------------------------------------------------------
(* Specification SpecRace: two requests rate the same Pizza, each in its   *)
(* own session: it loads the row, calls update_rating on its copy and      *)
(* commits rating and rating_count; the system adds no locking.            *)

InitRace ==
    /\ pizza \in {NewPizza(BasePrice), update_rating(NewPizza(BasePrice), RatOfInt(5)).pizza}
    /\ submitted = [sum |-> RatMulInt(pizza.rating, pizza.rating_count), n |-> pizza.rating_count]
    /\ sess = [i \in Sessions |-> IdleSession]
    /\ now = 0
    /\ raised = NoError
    /\ returned = None
    /\ db = EmptyDb
    /\ env = [foreign_keys |-> FALSE, price_not_null |-> TRUE]
    /\ last = NoRequest

Load(i, r) ==
    /\ sess[i].pc = "idle"
    /\ sess' = [sess EXCEPT ![i] = [pc |-> "loaded", local |-> pizza, arg |-> r]]
    /\ UNCHANGED <<pizza, now, raised, submitted, returned, storeVars>>

RateAndCommit(i) ==
    LET res == update_rating(sess[i].local, sess[i].arg)
    IN  /\ sess[i].pc = "loaded"
        /\ raised' = res.raised
        /\ IF res.raised = NoError
           THEN /\ pizza' = [pizza EXCEPT !.rating = res.pizza.rating,
                                          !.rating_count = res.pizza.rating_count]
                /\ submitted' = [sum |-> RatAdd(submitted.sum, sess[i].arg),
                                 n |-> submitted.n + 1]
                /\ sess' = [sess EXCEPT ![i].pc = "done"]
           ELSE /\ sess' = [sess EXCEPT ![i].pc = "failed"]
                /\ UNCHANGED <<pizza, submitted>>
        /\ UNCHANGED <<now, returned, storeVars>>

NextRace ==
    \/ \E i \in Sessions, r \in RatingInputs : Load(i, r)
    \/ \E i \in Sessions : RateAndCommit(i)

SpecRace == InitRace /\ [][NextRace]_vars

----------------------------------------------------------------------------
(* Properties of the rating operation *)

\* C1: from rating 0 and rating_count 0, after n successful update_rating
\* calls with values in [0, 5], rating_count is n and rating is the
\* arithmetic mean of the submitted values, whatever their order.
C1_RunningMeanIsArithmeticMean ==
    /\ pizza.rating_count = submitted.n
    /\ pizza.rating = IF submitted.n = 0 THEN RatOfInt(0)
                      ELSE RatDivInt(submitted.sum, submitted.n)

\* three ratings 0, 2.5 and 5 (in any order) were accepted: the mean is 2.5
C1_Witness ==
    /\ submitted.n = 3
    /\ submitted.sum = Rat(15, 2)
    /\ pizza.rating = Rat(5, 2)

C3_InvalidRatingLeavesPizzaUnchanged ==
    /\ [](\A r \in RatingInputs :
            (RatLess(r, RatOfInt(0)) \/ RatLess(RatOfInt(5), r))
                => update_rating(pizza, r) = [pizza |-> pizza, raised |-> RatingError])
    /\ [][raised' = RatingError => pizza' = pizza]_vars

\* a rating was refused on a pizza that already holds ratings
C3_Witness ==
    /\ raised = RatingError
    /\ pizza.rating_count = 2
    /\ pizza.rating = Rat(5, 4)

----------------------------------------------------------------------------
(* Properties of the special offer *)

OfferFields(p) ==
    <<p.is_special, p.special_price, p.special_start_date, p.special_end_date>>

\* C4: set_special_offer(p, start, end) with p >= price fails and leaves the
\* four offer fields unchanged, also when an offer is already in place; with
\* p < price it sets is_special, special_price = p and the two dates as given.
C4_SetSpecialOffer ==
    /\ [](\A sp \in SpecialPriceInputs, s \in DateInputs, e \in DateInputs :
            LET res == set_special_offer(pizza, sp, s, e)
            IN  IF sp >= pizza.price
                THEN /\ res.raised = SpecialPriceError
                     /\ OfferFields(res.pizza) = OfferFields(pizza)
                ELSE /\ res.raised = NoError
                     /\ OfferFields(res.pizza) = <<TRUE, Some(sp), s, e>>)
    /\ [][raised' = SpecialPriceError => OfferFields(pizza') = OfferFields(pizza)]_vars

\* an offer at the base price was refused while an earlier offer was in place
C4_Witness ==
    /\ raised = SpecialPriceError
    /\ OfferFields(pizza) = <<TRUE, Some(BasePrice - 10), Some(1), Some(2)>>

\* the four-way conjunction of the data model, both window bounds inclusive
OfferActive(p, t) ==
    /\ p.is_special = TRUE
    /\ p.special_price # None
    /\ \/ p.special_start_date = None
       \/ t >= Val(p.special_start_date)
    /\ \/ p.special_end_date = None
       \/ t <= Val(p.special_end_date)

\* C5: at any clock value, get_current_price returns special_price exactly
\* when is_special and special_price is set and (no start or now >= start)
\* and (no end or now <= end), else the base price; it mutates no field.
C5_CurrentPrice ==
    /\ [](returned # None =>
            LET r == Val(returned)
            IN  r.price = IF OfferActive(pizza, r.at)
                          THEN Val(pizza.special_price)
                          ELSE pizza.price)
    /\ [][pizza' = pizza]_vars

\* the call was made at the very end of the window and gave the special price
C5_Witness ==
    /\ returned = Some([at |-> 2, price |-> BasePrice - 10])
    /\ pizza.special_start_date = Some(1)
    /\ pizza.special_end_date = Some(2)

\* C10: with the base price untouched, from the no-offer state and under any
\* sequence of set_special_offer (accepted or refused) and end_special_offer:
\* is_special implies special_price is set and below the price, so the
\* current price never exceeds the base price at any clock value; and
\* end_special_offer leaves the four offer fields inactive/null and the
\* current price equal to the base price.
C10_OfferNeverAboveBasePrice ==
    /\ [](/\ pizza.price = BasePrice
          /\ pizza.is_special =>
                (pizza.special_price # None /\ Val(pizza.special_price) < pizza.price)
          /\ \A t \in Times : get_current_price(pizza, t) <= pizza.price
          /\ LET q == end_special_offer(pizza)
             IN  /\ OfferFields(q) = <<FALSE, None, None, None>>
                 /\ \A t \in Times : get_current_price(q, t) = q.price)
    /\ [][(pizza.is_special /\ ~pizza'.is_special) =>
            /\ OfferFields(pizza') = <<FALSE, None, None, None>>
            /\ get_current_price(pizza', now') = pizza'.price]_vars

\* an offer is running and is the current price, after an earlier offer was
\* refused
C10_Witness ==
    /\ pizza.is_special
    /\ get_current_price(pizza, now) = BasePrice - 10
    /\ now = 1
    /\ pizza.special_end_date = Some(1)
    /\ pizza.rating_count = 1

----------------------------------------------------------------------------
(* Properties of the store *)

\* C6: POST /restaurant_pizzas never yields a partial success: either it
\* answers 201 and exactly one new row is committed, or it answers 400 and
\* the committed restaurant_pizzas rows are those from before the request.
C6_NoPartialSuccess ==
    [][last'.op = "post" =>
        \/ /\ last'.status = 201
           /\ db.restaurant_pizzas \subseteq db'.restaurant_pizzas
           /\ Cardinality(db'.restaurant_pizzas) = Cardinality(db.restaurant_pizzas) + 1
        \/ /\ last'.status = 400
           /\ db'.restaurant_pizzas = db.restaurant_pizzas]_vars

\* C7: every restaurant_pizzas row in the store, after any sequence of seed
\* runs and POST requests, has its price in [1, 30]: a price of 1 or 30
\* passes construction, a price of 0 or 31 fails with the price-range error
\* and persists nothing.
C7_StoredPriceInRange ==
    /\ [](\A rp \in db.restaurant_pizzas : 1 <= rp.price /\ rp.price <= 30)
    /\ [][(last'.op = "post" /\ last'.price \in {Some(0), Some(31)}) =>
            /\ last'.status = 400
            /\ last'.errors \in {<<PriceRangeError>>, <<InvalidData>>}
            /\ db' = db]_vars
    /\ [][(last'.op = "post" /\ last'.price \in {Some(1), Some(30)}) =>
            last'.errors # <<PriceRangeError>>]_vars
    /\ [](\A pid \in PizzaIdInputs \ {None}, rid \in RestaurantIdInputs :
            /\ \A pr \in {Some(0), Some(31)} :
                 create_restaurant_pizza(db, env,
                     [price |-> pr, pizza_id |-> pid, restaurant_id |-> rid])
                   = [db |-> db, status |-> 400, errors |-> <<PriceRangeError>>]
            /\ \A pr \in {Some(1), Some(30)} :
                 create_restaurant_pizza(db, env,
                     [price |-> pr, pizza_id |-> pid, restaurant_id |-> rid]).errors
                   # <<PriceRangeError>>)

\* the seeded rows and two posted rows at the two ends of the range are in
\* the store, and a price of 31 has just been refused
C7_Witness ==
    /\ SeedRows \subseteq db.restaurant_pizzas
    /\ \E rp \in db.restaurant_pizzas : rp.price = 1
    /\ \E rp \in db.restaurant_pizzas : rp.price = 30
    /\ last = [op |-> "post", price |-> Some(31), status |-> 400,
               errors |-> <<PriceRangeError>>]

\* what deleting restaurant rid must make of store d, giving store d2
CascadeOutcome(d, d2, rid) ==
    /\ rid \notin d2.restaurants
    /\ \A rp \in d2.restaurant_pizzas : rp.restaurant_id # rid
    /\ d2.restaurant_pizzas = {rp \in d.restaurant_pizzas : rp.restaurant_id # rid}
    /\ d2.pizzas = d.pizzas
    /\ d2.restaurants = d.restaurants \ {rid}

\* C8: deleting a Restaurant removes every restaurant_pizzas row of that
\* restaurant and no other row: afterwards no row references it, every
\* Pizza row still exists, and the rows of other restaurants are unchanged.
C8_DeleteCascades ==
    /\ [](\A rid \in db.restaurants :
            CascadeOutcome(db, delete_restaurant(db, rid).db, rid))
    /\ [][(last'.op = "delete" /\ last'.status = 204) =>
            \E rid \in db.restaurants : CascadeOutcome(db, db', rid)]_vars

\* restaurant 1 was deleted from the seeded store: its rows are gone, the
\* four rows of restaurants 2 and 3 and the three pizzas remain
C8_Witness ==
    /\ last.op = "delete"
    /\ last.status = 204
    /\ db.restaurants = {2, 3}
    /\ db.pizzas = {1, 2, 3}
    /\ db.restaurant_pizzas = {rp \in SeedRows : rp.restaurant_id # 1}

----------------------------------------------------------------------------
(* Properties of concurrent rating *)

\* C9: when two update_rating requests on the same pizza interleave so that
\* both load the row before either commits, both succeed but one update is
\* lost: rating_count grows by 1 only and rating reflects one of the two
\* submitted values only.
C9_LostUpdate ==
    (/\ \A i \in Sessions : sess[i].pc = "done"
     /\ sess[1].local = sess[2].local)
    => LET base == sess[1].local
           alone(i) == RatDivInt(RatAdd(RatMulInt(base.rating, base.rating_count),
                                        sess[i].arg),
                                 base.rating_count + 1)
       IN  /\ submitted.n = base.rating_count + 2
           /\ pizza.rating_count = base.rating_count + 1
           /\ pizza.rating \in {alone(1), alone(2)}

\* both requests rated a pizza already rated 5 once, with 0 and 2.5, from
\* the same snapshot: three ratings were accepted, two are counted, and the
\* rating is not the mean of the three
C9_Witness ==
    /\ \A i \in Sessions : sess[i].pc = "done"
    /\ sess[1].local = sess[2].local
    /\ sess[1].arg = RatOfInt(0)
    /\ sess[2].arg = Rat(5, 2)
    /\ submitted.n = 3
    /\ pizza.rating_count = 2
    /\ pizza.rating # RatDivInt(submitted.sum, submitted.n)

====
